---------------------------- MODULE Spec2Model ----------------------------
(***************************************************************************)
(* rustymicrograd: a scalar reverse-mode automatic-differentiation engine  *)
(* (src/src/value.rs) and the neuron / layer / multi-layer perceptron      *)
(* built on it (src/src/nn.rs), with the training loop of                  *)
(* src/src/bin/mld_backwards.rs.                                           *)
(*                                                                         *)
(* Numbers.  The program computes in f32.  The model computes in decimal   *)
(* fixed point with two fractional digits: the integer n stands for the    *)
(* number n / SCALE, and every product, quotient and power is rounded to   *)
(* the nearest representable number, as every f32 operation is.  Sums and  *)
(* products of whole numbers are exact in both.                            *)
(*                                                                         *)
(* Heap.  Every Rc<RefCell<ValueInner>> is a cell of the sequence `nodes`; *)
(* a ValueInnerRef is the cell's index.  A cell is never freed in the      *)
(* model (dropping a node is not observable by the operations modelled).   *)
(***************************************************************************)
EXTENDS Integers, Sequences, FiniteSets, TLC

VARIABLES nodes,     \* the heap of ValueInner cells
          last,      \* the last operation performed, its arguments and result
          panicked,  \* a RefCell borrow check failed: the thread has panicked
          nn,        \* the MultiLayerPerceptron (its layers and sizes)
          prog       \* the client program: its program counter and locals

vars == <<nodes, last, panicked, nn, prog>>

---------------------------------------------------------------------------
(* Bounds of the model. *)

MaxNodes == 3      \* nodes the arbitrary client builds
MaxData == 30      \* the client builds no node of magnitude above MaxData

---------------------------------------------------------------------------
(* f32 arithmetic, in fixed point. *)

SCALE == 100

Fix(n) == n * SCALE

Abs(n) == IF n < 0 THEN -n ELSE n

\* n / d rounded to the nearest integer, ties away from zero (d > 0).
RoundDiv(n, d) ==
    IF n >= 0 THEN (2 * n + d) \div (2 * d)
              ELSE -((2 * (-n) + d) \div (2 * d))

\* x * y on f32.
FMul(x, y) == RoundDiv(x * y, SCALE)

\* x / y on f32 (y # 0).
FDiv(x, y) ==
    IF y > 0 THEN RoundDiv(x * SCALE, y) ELSE RoundDiv(-(x * SCALE), -y)

\* f32::powf(x, e) for a whole exponent e >= 0 (e itself in fixed point):
\* x * x * ... * x, rounded as it goes.
RECURSIVE PowF(_, _)
PowF(x, e) == IF e < SCALE THEN SCALE ELSE FMul(PowF(x, e - SCALE), x)

\* The series of f32::exp(y), y >= 0: term + term*y/k + ... until it vanishes.
RECURSIVE ExpSeries(_, _, _)
ExpSeries(y, k, term) ==
    IF term = 0 THEN 0
    ELSE term + ExpSeries(y, k + 1, RoundDiv(term * y, SCALE * k))

\* Largest argument of exp the fixed-point series is evaluated at; beyond it
\* (e^(2x) - 1) / (e^(2x) + 1) rounds to 1.0 in f32 as it does here.
ExpMax == 600

\* f32::exp(y).
Exp(y) ==
    IF y >= 0 THEN ExpSeries(y, 1, SCALE)
              ELSE RoundDiv(SCALE * SCALE, ExpSeries(-y, 1, SCALE))

\* t = (f32::exp(2.0 * x) - 1.0) / (f32::exp(2.0 * x) + 1.0)
TanhF(x) ==
    IF 2 * x > ExpMax THEN SCALE
    ELSE IF 2 * x < -ExpMax THEN -SCALE
    ELSE FDiv(Exp(2 * x) - SCALE, Exp(2 * x) + SCALE)

---------------------------------------------------------------------------
(* ValueInner and the operations that build nodes. *)

NoRef == 0

\* struct ValueInner { data, op, grad } ; the Op variant is op with its
\* operands a, b and its f32 payload k (TanH: cached t, Pow: exponent).
ValueInner(data, op, a, b, k, grad) ==
    [data |-> data, grad |-> grad, op |-> op, a |-> a, b |-> b, k |-> k]

Refs(h) == 1..Len(h)

\* Value::new(data, label): a leaf with grad 0.0.
ValueNew(h, data) == Append(h, ValueInner(data, "None", NoRef, NoRef, 0, 0))

\* impl ops::Add for &Value
AddValue(h, i, j) ==
    Append(h, ValueInner(h[i].data + h[j].data, "Add", i, j, 0, 0))

\* Mutant of MulValue: the sum instead of the product.
MulValue_AsAdd(h, i, j) ==
    Append(h, ValueInner(h[i].data + h[j].data, "Mul", i, j, 0, 0))

\* impl ops::Mul for &Value
MulValue(h, i, j) ==
    Append(h, ValueInner(FMul(h[i].data, h[j].data), "Mul", i, j, 0, 0))

\* Value::tanh
TanhValue(h, i) ==
    LET t == TanhF(h[i].data)
    IN  Append(h, ValueInner(t, "TanH", i, NoRef, t, 0))

\* Value::pow
PowValue(h, i, e) ==
    Append(h, ValueInner(PowF(h[i].data, e), "Pow", i, NoRef, e, 0))

\* impl ops::Mul<f32> for &Value: a fresh leaf for rhs, then Mul.
MulF32(h, i, c) == MulValue(ValueNew(h, c), i, Len(h) + 1)

\* impl ops::Neg for &Value: self * -1.0
NegValue(h, i) == MulF32(h, i, Fix(-1))

\* impl ops::Sub for &Value: self + &(-rhs)
SubValue(h, i, j) == AddValue(NegValue(h, j), i, Len(h) + 2)

---------------------------------------------------------------------------
(* Backward propagation. *)

\* A backward pass in progress: the heap, the nodes whose backward() has
\* been entered (in order), and whether no borrow check has failed.
BwdState(h, tr, ok) == [h |-> h, tr |-> tr, ok |-> ok]

\* Mutant of AccumulateGrad: the gradient is assigned, not accumulated.
AccumulateGrad_Assign(st, target, delta, borrowed) ==
    IF ~st.ok THEN st
    ELSE IF target \in borrowed THEN [st EXCEPT !.ok = FALSE]
    ELSE [st EXCEPT !.h[target].grad = delta]

\* target.borrow_mut().grad += delta, while the cells of `borrowed` hold a
\* live shared borrow: RefCell::borrow_mut panics if target is among them.
AccumulateGrad(st, target, delta, borrowed) ==
    IF ~st.ok THEN st
    ELSE IF target \in borrowed THEN [st EXCEPT !.ok = FALSE]
    ELSE [st EXCEPT !.h[target].grad = @ + delta]

\* The local derivative rules: what a node c with operands a, b adds to an
\* operand's grad when its own grad is g.
\* Op::Add:  1.0 * self.grad
AddDelta(g) == FMul(SCALE, g)

\* Mutant of MulDeltaA: the operand's own value instead of the other's.
MulDeltaA_OwnData(h, c, g) == FMul(h[h[c].a].data, g)

\* Op::Mul, operand a:  b.borrow().data * self.grad
MulDeltaA(h, c, g) == FMul(h[h[c].b].data, g)

\* Op::Mul, operand b:  a.borrow().data * self.grad
MulDeltaB(h, c, g) == FMul(h[h[c].a].data, g)

\* Op::TanH(a, t):  (1.0 - t.powf(2.0)) * self.grad
TanhDelta(h, c, g) == FMul(SCALE - PowF(h[c].k, Fix(2)), g)

\* Op::Pow(a, b):  b * a.data.powf(b - 1.0) * self.grad
PowDelta(h, c, g) ==
    FMul(FMul(h[c].k, PowF(h[h[c].a].data, h[c].k - SCALE)), g)

\* ValueInner::backward on cell i.  `held` are the cells borrowed by the
\* callers up the recursion (x.borrow().backward() keeps x borrowed while
\* its backward runs); self is borrowed by the caller too.
RECURSIVE BackwardInner(_, _, _)
BackwardInner(st, i, held) ==
    IF ~st.ok THEN st
    ELSE
    LET self == st.h[i]
        a == self.a
        b == self.b
        hold == held \cup {i}
        s0 == [st EXCEPT !.tr = Append(@, i)]
    IN  CASE self.op = "Add" ->
               LET s1 == AccumulateGrad(s0, a, AddDelta(self.grad), hold)
                   s2 == AccumulateGrad(s1, b, AddDelta(self.grad), hold)
                   s3 == BackwardInner(s2, a, hold)
               IN  BackwardInner(s3, b, hold)
          [] self.op = "Mul" ->
               \* the Ref of b.borrow() (resp. a.borrow()) on the right-hand
               \* side lives to the end of the statement
               LET s1 == AccumulateGrad(s0, a, MulDeltaA(s0.h, i, self.grad),
                                        hold \cup {b})
                   s2 == AccumulateGrad(s1, b, MulDeltaB(s1.h, i, self.grad),
                                        hold \cup {a})
                   s3 == BackwardInner(s2, a, hold)
               IN  BackwardInner(s3, b, hold)
          [] self.op = "TanH" ->
               LET s1 == AccumulateGrad(s0, a, TanhDelta(s0.h, i, self.grad), hold)
               IN  BackwardInner(s1, a, hold)
          [] self.op = "Pow" ->
               LET s1 == AccumulateGrad(s0, a, PowDelta(s0.h, i, self.grad), hold)
               IN  BackwardInner(s1, a, hold)
          [] OTHER -> s0

\* Value::backward: self.inner.borrow().backward()
ValueBackward(h, i) == BackwardInner(BwdState(h, <<>>, TRUE), i, {})

---------------------------------------------------------------------------
(* Neuron, Layer, MultiLayerPerceptron (src/src/nn.rs). *)

\* An operation's outcome: the heap after it and the value it returns.
Out(h, v) == [h |-> h, v |-> v]

Min(x, y) == IF x <= y THEN x ELSE y

\* rand::thread_rng().gen_range(-1.0..1.0): the k-th number drawn by a
\* generator seeded with `seed`.
RandTable == <<50, -30, 70, -80, 20, -60, 10>>
Draw(seed, k) == RandTable[((seed + k - 1) % Len(RandTable)) + 1]

\* Neuron::new(num_inputs), the generator having drawn k0 numbers so far:
\* num_inputs weight leaves, then the bias leaf.
NeuronNew(h, num_inputs, seed, k0) ==
    LET leaves == [i \in 1..(num_inputs + 1) |->
                      ValueInner(Draw(seed, k0 + i), "None", NoRef, NoRef, 0, 0)]
    IN  Out(h \o leaves,
            [w |-> [i \in 1..num_inputs |-> Len(h) + i],
             b |-> Len(h) + num_inputs + 1])

\* Layer::new(num_inputs, num_outputs): the neurons one after the other.
\* (acc.v are the neurons made so far.)
RECURSIVE LayerNewFrom(_, _, _, _, _)
LayerNewFrom(acc, num_inputs, num_outputs, seed, k0) ==
    IF Len(acc.v) >= num_outputs THEN acc
    ELSE LET n == NeuronNew(acc.h, num_inputs, seed, k0)
         IN  LayerNewFrom(Out(n.h, Append(acc.v, n.v)), num_inputs, num_outputs,
                          seed, k0 + num_inputs + 1)

LayerNew(h, num_inputs, num_outputs, seed, k0) ==
    LayerNewFrom(Out(h, <<>>), num_inputs, num_outputs, seed, k0)

\* MultiLayerPerceptron::new: sizes = [num_inputs] ++ layer_sizes, one layer
\* per consecutive pair of sizes.
\* (acc.v are the layers made so far.)
RECURSIVE MLPNewFrom(_, _, _, _)
MLPNewFrom(acc, sizes, seed, k0) ==
    IF Len(acc.v) + 1 >= Len(sizes) THEN acc
    ELSE LET l == Len(acc.v) + 1
             layer == LayerNew(acc.h, sizes[l], sizes[l + 1], seed, k0)
         IN  MLPNewFrom(Out(layer.h, Append(acc.v, layer.v)), sizes,
                        seed, k0 + (sizes[l] + 1) * sizes[l + 1])

MLPNew(h, num_inputs, layer_sizes, seed) ==
    LET sizes == <<num_inputs>> \o layer_sizes
        built == MLPNewFrom(Out(h, <<>>), sizes, seed, 0)
    IN  Out(built.h, [layers |-> built.v, sizes |-> sizes])

\* Neuron::forward: x.iter().zip(&self.w).map(|(a, b)| a * b)
\*                   .fold(self.b.clone(), |acc, v| &acc + &v).tanh()
\* The iterator is lazy: each product is built, then added to acc, and zip
\* ends with the shorter of x and w.
RECURSIVE NeuronFold(_, _, _, _, _)
NeuronFold(h, neuron, x, i, acc) ==
    IF i > Min(Len(x), Len(neuron.w)) THEN Out(h, acc)
    ELSE LET h1 == MulValue(h, x[i], neuron.w[i])
             h2 == AddValue(h1, acc, Len(h1))
         IN  NeuronFold(h2, neuron, x, i + 1, Len(h2))

NeuronForward(h, neuron, x) ==
    LET sum == NeuronFold(h, neuron, x, 1, neuron.b)
        h1 == TanhValue(sum.h, sum.v)
    IN  Out(h1, Len(h1))

\* Mutant of NeuronParameters: the bias first.
NeuronParameters_BiasFirst(neuron) == <<neuron.b>> \o neuron.w

\* Neuron::parameters: the weights, then the bias.
NeuronParameters(neuron) == Append(neuron.w, neuron.b)

\* Layer::forward: every neuron's forward on the same x, in neuron order.
\* (acc.v are the outputs collected so far.)
RECURSIVE LayerForwardFrom(_, _, _)
LayerForwardFrom(acc, layer, x) ==
    IF Len(acc.v) >= Len(layer) THEN acc
    ELSE LET o == NeuronForward(acc.h, layer[Len(acc.v) + 1], x)
         IN  LayerForwardFrom(Out(o.h, Append(acc.v, o.v)), layer, x)

LayerForward(h, layer, x) == LayerForwardFrom(Out(h, <<>>), layer, x)

\* Layer::parameters: the neurons' parameters, flattened in neuron order.
RECURSIVE LayerParameters(_)
LayerParameters(layer) ==
    IF layer = <<>> THEN <<>>
    ELSE NeuronParameters(Head(layer)) \o LayerParameters(Tail(layer))

\* MultiLayerPerceptron::forward: x = layer.forward(&x) for each layer.
RECURSIVE MLPForwardFrom(_, _, _)
MLPForwardFrom(acc, layers, l) ==
    IF l > Len(layers) THEN acc
    ELSE MLPForwardFrom(LayerForward(acc.h, layers[l], acc.v), layers, l + 1)

\* Mutant of MLPForward: the loop starts at the second layer.
MLPForward_SkipFirst(h, net, x) == MLPForwardFrom(Out(h, x), net.layers, 2)

MLPForward(h, net, x) == MLPForwardFrom(Out(h, x), net.layers, 1)

\* MultiLayerPerceptron::parameters: the layers' parameters, flattened.
RECURSIVE LayersParameters(_)
LayersParameters(layers) ==
    IF layers = <<>> THEN <<>>
    ELSE LayerParameters(Head(layers)) \o LayersParameters(Tail(layers))

MLPParameters(net) == LayersParameters(net.layers)

---------------------------------------------------------------------------
(* The library driven by its clients. *)

NoNet == [layers |-> <<>>, sizes |-> <<>>]

\* The client's program counter and locals: the iteration, the input rows
\* xs and targets ys (leaves), the predictions and the loss node.
Prog(pc, iter, xs, ys, preds, loss) ==
    [pc |-> pc, iter |-> iter, xs |-> xs, ys |-> ys, preds |-> preds,
     loss |-> loss]

\* What the last call was: its name, arguments, result, whether it failed,
\* the heap before it and (for backward) the order in which backward() was
\* entered.
Call(op, args, res, err, pre, tr) ==
    [op |-> op, args |-> args, res |-> res, err |-> err, pre |-> pre,
     tr |-> tr]

LeafVals == {Fix(2), Fix(3)}
PowExps == {Fix(2), Fix(3)}

Init ==
    /\ nodes = <<>>
    /\ last = Call("init", <<>>, <<>>, FALSE, <<>>, <<>>)
    /\ panicked = FALSE
    /\ nn = NoNet
    /\ prog = Prog("build", 0, <<>>, <<>>, <<>>, NoRef)

(* A client that builds an arbitrary expression out of at most MaxNodes    *)
(* nodes, seeds one gradient and calls backward once.                      *)

Build(op, args, h) ==
    /\ ~panicked
    /\ nn = NoNet
    /\ Len(h) <= MaxNodes
    /\ Abs(h[Len(h)].data) <= Fix(MaxData)
    /\ nodes' = h
    /\ last' = Call(op, args, <<Len(h)>>, FALSE, nodes, <<>>)
    /\ UNCHANGED <<panicked, nn, prog>>

NewValue == \E v \in LeafVals : Build("new", <<v>>, ValueNew(nodes, v))

Add == \E i, j \in Refs(nodes) : Build("add", <<i, j>>, AddValue(nodes, i, j))

Mul == \E i, j \in Refs(nodes) : Build("mul", <<i, j>>, MulValue(nodes, i, j))

Tanh == \E i \in Refs(nodes) : Build("tanh", <<i>>, TanhValue(nodes, i))

Pow == \E i \in Refs(nodes), e \in PowExps :
          Build("pow", <<i, e>>, PowValue(nodes, i, e))

\* Value::set_grad
SetGrad ==
    \E i \in Refs(nodes) :
        /\ ~panicked
        /\ nn = NoNet
        /\ prog.pc = "build"
        /\ nodes' = [nodes EXCEPT ![i].grad = SCALE]
        /\ prog' = [prog EXCEPT !.pc = "seeded"]
        /\ last' = Call("set_grad", <<i, SCALE>>, <<>>, FALSE, nodes, <<>>)
        /\ UNCHANGED <<panicked, nn>>

\* Value::backward
Backward ==
    \E i \in Refs(nodes) :
        /\ ~panicked
        /\ nn = NoNet
        /\ prog.pc = "seeded"
        /\ LET r == ValueBackward(nodes, i)
           IN  /\ nodes' = r.h
               /\ panicked' = ~r.ok
               /\ last' = Call("backward", <<i>>, <<>>, ~r.ok, nodes, r.tr)
        /\ prog' = [prog EXCEPT !.pc = "done"]
        /\ UNCHANGED nn

(* A client that builds a perceptron, asks for its parameters, makes an    *)
(* input row of any length and calls one of the forward functions.         *)

MaxWidth == 2      \* neurons per layer, and inputs, of a generated network
MaxLayers == 2     \* layers of a generated network
MaxInputs == 4     \* length of an input row

\* MultiLayerPerceptron::new(3, &[4, 4, 1]) of the example programs.
DemoInputs == 3
DemoLayers == <<4, 4, 1>>

NetConfigs ==
    {[n |-> n, sizes |-> s] :
        n \in 1..MaxWidth,
        s \in UNION {[1..k -> 1..MaxWidth] : k \in 1..MaxLayers}}
    \cup {[n |-> DemoInputs, sizes |-> DemoLayers]}

Seeds == {0, 3}

\* The input rows of the example programs.
InputRows == << <<Fix(2), Fix(3), Fix(-1)>>, <<Fix(3), Fix(-1), 50>> >>

\* [..].map(|v| Value::new(v, None)): a row of fresh leaves.
NewRow(h, vals) ==
    Out(h \o [i \in 1..Len(vals) |->
                 ValueInner(vals[i], "None", NoRef, NoRef, 0, 0)],
        [i \in 1..Len(vals) |-> Len(h) + i])

NewNet ==
    \E cfg \in NetConfigs, seed \in Seeds :
        /\ ~panicked
        /\ prog.pc = "build" /\ nodes = <<>>
        /\ LET r == MLPNew(nodes, cfg.n, cfg.sizes, seed)
           IN  /\ nodes' = r.h
               /\ nn' = r.v
               /\ last' = Call("mlp_new", <<cfg.n>> \o cfg.sizes, <<>>, FALSE,
                               nodes, <<>>)
        /\ prog' = [prog EXCEPT !.pc = "net"]
        /\ UNCHANGED panicked

Parameters ==
    /\ ~panicked
    /\ prog.pc = "net"
    /\ last.op # "parameters"
    /\ last' = Call("parameters", <<>>, MLPParameters(nn), FALSE, nodes, <<>>)
    /\ UNCHANGED <<nodes, panicked, nn, prog>>

NewInputs ==
    \E len \in 0..MaxInputs, row \in 1..Len(InputRows) :
        /\ ~panicked
        /\ prog.pc = "net"
        /\ LET vals == [i \in 1..len |->
                           InputRows[row][((i - 1) % Len(InputRows[row])) + 1]]
               r == NewRow(nodes, vals)
           IN  /\ nodes' = r.h
               /\ prog' = [prog EXCEPT !.pc = "inputs", !.xs = <<r.v>>]
               /\ last' = Call("inputs", vals, r.v, FALSE, nodes, <<>>)
        /\ UNCHANGED <<panicked, nn>>

\* A forward call on the input row: the heap and the nodes it returns.
Forward(op, args, r, res) ==
    /\ ~panicked
    /\ prog.pc = "inputs"
    /\ nodes' = r.h
    /\ last' = Call(op, args, res, FALSE, nodes, <<>>)
    /\ prog' = [prog EXCEPT !.pc = "done", !.preds = res]
    /\ UNCHANGED <<panicked, nn>>

NeuronForwardCall ==
    \E l \in 1..Len(nn.layers) : \E j \in 1..Len(nn.layers[l]) :
        LET r == NeuronForward(nodes, nn.layers[l][j], prog.xs[1])
        IN  Forward("neuron_forward", <<l, j>>, r, <<r.v>>)

LayerForwardCall ==
    \E l \in 1..Len(nn.layers) :
        LET r == LayerForward(nodes, nn.layers[l], prog.xs[1])
        IN  Forward("layer_forward", <<l>>, r, r.v)

MLPForwardCall ==
    LET r == MLPForward(nodes, nn, prog.xs[1])
    IN  Forward("mlp_forward", <<>>, r, r.v)

Next ==
    \/ NewValue \/ Add \/ Mul \/ Tanh \/ Pow \/ SetGrad \/ Backward
    \/ NewNet \/ Parameters \/ NewInputs
    \/ NeuronForwardCall \/ LayerForwardCall \/ MLPForwardCall

Spec == Init /\ [][Next]_vars

---------------------------------------------------------------------------
(* The diamond regression: shared, p, q leaves; left = shared * p;          *)
(* right = shared * q; out = left + right; out.grad = 1.0; out.backward(). *)

DiamondVals == {Fix(-1), Fix(2), Fix(3), Fix(5)}

\* The cells of the diamond, in the order they are built.
Diamond == [shared |-> 1, p |-> 2, q |-> 3, left |-> 4, right |-> 5, out |-> 6]

DiamondInit ==
    /\ nodes = <<>>
    /\ last = Call("init", <<>>, <<>>, FALSE, <<>>, <<>>)
    /\ panicked = FALSE
    /\ nn = NoNet
    /\ prog = Prog("leaves", 0, <<>>, <<>>, <<>>, NoRef)

DiamondStep(pc, next, op, args, h) ==
    /\ prog.pc = pc
    /\ nodes' = h
    /\ last' = Call(op, args, <<>>, FALSE, nodes, <<>>)
    /\ prog' = [prog EXCEPT !.pc = next]
    /\ UNCHANGED <<panicked, nn>>

DiamondLeaves ==
    \E s, p, q \in DiamondVals :
        DiamondStep("leaves", "left", "new", <<s, p, q>>,
                    ValueNew(ValueNew(ValueNew(nodes, s), p), q))

DiamondLeft ==
    DiamondStep("left", "right", "mul", <<Diamond.shared, Diamond.p>>,
                MulValue(nodes, Diamond.shared, Diamond.p))

DiamondRight ==
    DiamondStep("right", "out", "mul", <<Diamond.shared, Diamond.q>>,
                MulValue(nodes, Diamond.shared, Diamond.q))

DiamondAdd ==
    DiamondStep("out", "seed", "add", <<Diamond.left, Diamond.right>>,
                AddValue(nodes, Diamond.left, Diamond.right))

DiamondSeed ==
    DiamondStep("seed", "backward", "set_grad", <<Diamond.out, SCALE>>,
                [nodes EXCEPT ![Diamond.out].grad = SCALE])

DiamondBackward ==
    /\ prog.pc = "backward"
    /\ LET r == ValueBackward(nodes, Diamond.out)
       IN  /\ nodes' = r.h
           /\ panicked' = ~r.ok
           /\ last' = Call("backward", <<Diamond.out>>, <<>>, ~r.ok, nodes, r.tr)
    /\ prog' = [prog EXCEPT !.pc = "done"]
    /\ UNCHANGED nn

DiamondNext ==
    \/ DiamondLeaves \/ DiamondLeft \/ DiamondRight \/ DiamondAdd
    \/ DiamondSeed \/ DiamondBackward

SpecDiamond == DiamondInit /\ [][DiamondNext]_vars

---------------------------------------------------------------------------
(* The training loop of src/src/bin/mld_backwards.rs. *)

MaxIter == 2       \* iterations of the training loop that are followed

\* xs and ys of the program.
TrainRows == << <<Fix(2), Fix(3), Fix(-1)>>, <<Fix(3), Fix(-1), 50>>,
                <<50, Fix(1), Fix(1)>>, <<Fix(1), Fix(1), Fix(-1)>> >>
TrainTargets == <<Fix(1), Fix(-1), Fix(-1), Fix(1)>>

\* The learning rate 0.01.
LearningRate == 1

\* xs: one row of leaves per row of TrainRows, cut to the network's inputs.
RECURSIVE NewRows(_, _, _)
NewRows(acc, rows, n) ==
    IF Len(acc.v) >= Len(rows) THEN acc
    ELSE LET r == NewRow(acc.h, SubSeq(rows[Len(acc.v) + 1], 1, n))
         IN  NewRows(Out(r.h, Append(acc.v, r.v)), rows, n)

\* predictions: xs.iter().map(|x| nn.forward(x)).map(|mut v| v.pop().unwrap())
RECURSIVE Predictions(_, _, _)
Predictions(acc, net, xs) ==
    IF Len(acc.v) >= Len(xs) THEN acc
    ELSE LET o == MLPForward(acc.h, net, xs[Len(acc.v) + 1])
         IN  Predictions(Out(o.h, Append(acc.v, o.v[Len(o.v)])), net, xs)

\* loss: ys.iter().zip(predictions).map(|(y, p)| (y - &p).pow(2.0))
\*         .fold(Value::new(0.0, None), |acc, v| acc + v)
\* (acc.v is the node holding the sum so far.)
RECURSIVE LossFold(_, _, _, _)
LossFold(acc, ys, preds, r) ==
    IF r > Min(Len(ys), Len(preds)) THEN acc
    ELSE LET h1 == SubValue(acc.h, ys[r], preds[r])
             h2 == PowValue(h1, Len(h1), Fix(2))
             h3 == AddValue(h2, acc.v, Len(h2))
         IN  LossFold(Out(h3, Len(h3)), ys, preds, r + 1)

Loss(h, ys, preds) ==
    LET h0 == ValueNew(h, 0) IN LossFold(Out(h0, Len(h0)), ys, preds, 1)

\* Mutant of ZeroGrads: the gradients are not reset.
ZeroGrads_Skip(h, params) == h

\* nn.parameters().iter().for_each(|p| p.grad = 0.0)
ZeroGrads(h, params) ==
    [n \in 1..Len(h) |->
        IF \E k \in 1..Len(params) : params[k] = n
        THEN [h[n] EXCEPT !.grad = 0] ELSE h[n]]

\* nn.parameters().iter().for_each(|p| p.data -= 0.01 * p.grad)
UpdateData(h, params) ==
    [n \in 1..Len(h) |->
        IF \E k \in 1..Len(params) : params[k] = n
        THEN [h[n] EXCEPT !.data = @ - FMul(LearningRate, h[n].grad)]
        ELSE h[n]]

\* The state at the head of the loop: xs, ys and the network are built.
TrainInit ==
    \E cfg \in NetConfigs, seed \in Seeds :
        LET xs == NewRows(Out(<<>>, <<>>), TrainRows, cfg.n)
            ys == NewRow(xs.h, TrainTargets)
            net == MLPNew(ys.h, cfg.n, cfg.sizes, seed)
        IN  /\ nodes = net.h
            /\ nn = net.v
            /\ prog = Prog("forward", 1, xs.v, ys.v, <<>>, NoRef)
            /\ last = Call("mlp_new", <<cfg.n>> \o cfg.sizes, <<>>, FALSE,
                           ys.h, <<>>)
            /\ panicked = FALSE

TrainStep(pc, next, op, h) ==
    /\ ~panicked
    /\ prog.pc = pc
    /\ nodes' = h
    /\ last' = Call(op, <<>>, <<>>, FALSE, nodes, <<>>)
    /\ UNCHANGED <<panicked, nn>>

TrainForward ==
    LET r == Predictions(Out(nodes, <<>>), nn, prog.xs)
    IN  /\ TrainStep("forward", "loss", "forward", r.h)
        /\ prog' = [prog EXCEPT !.pc = "loss", !.preds = r.v]

TrainLoss ==
    LET r == Loss(nodes, prog.ys, prog.preds)
    IN  /\ TrainStep("loss", "zero", "loss", r.h)
        /\ prog' = [prog EXCEPT !.pc = "zero", !.loss = r.v]

TrainZero ==
    /\ TrainStep("zero", "seed", "zero_grad", ZeroGrads(nodes, MLPParameters(nn)))
    /\ prog' = [prog EXCEPT !.pc = "seed"]

TrainSeed ==
    /\ TrainStep("seed", "backward", "set_grad",
                 [nodes EXCEPT ![prog.loss].grad = SCALE])
    /\ prog' = [prog EXCEPT !.pc = "backward"]

TrainBackward ==
    /\ ~panicked
    /\ prog.pc = "backward"
    /\ LET r == ValueBackward(nodes, prog.loss)
       IN  /\ nodes' = r.h
           /\ panicked' = ~r.ok
           /\ last' = Call("backward", <<prog.loss>>, <<>>, ~r.ok, nodes, r.tr)
    /\ prog' = [prog EXCEPT !.pc = "update"]
    /\ UNCHANGED nn

TrainUpdate ==
    /\ TrainStep("update", "forward", "update",
                 UpdateData(nodes, MLPParameters(nn)))
    /\ prog' = [prog EXCEPT !.pc = IF prog.iter < MaxIter THEN "forward"
                                                          ELSE "done",
                            !.iter = @ + 1]

TrainNext ==
    \/ TrainForward \/ TrainLoss \/ TrainZero \/ TrainSeed
    \/ TrainBackward \/ TrainUpdate

SpecTrain == TrainInit /\ [][TrainNext]_vars

---------------------------------------------------------------------------
(* Vocabulary of the properties. *)

\* The operands of cell c.
Operands(h, c) == {h[c].a, h[c].b} \ {NoRef}

\* The cells reachable from root through operand references.
RECURSIVE Reach(_, _)
Reach(h, root) ==
    {root} \cup UNION {Reach(h, o) : o \in Operands(h, root)}

RECURSIVE SumOver(_, _, _)
SumOver(F(_), lo, hi) == IF lo > hi THEN 0 ELSE F(lo) + SumOver(F, lo + 1, hi)

\* What consumer c contributes to operand n when c's gradient is g: one
\* term per operand slot of c that holds n.
Contribution(h, c, n, g) ==
    CASE h[c].op = "Add"  -> (IF h[c].a = n THEN AddDelta(g) ELSE 0)
                           + (IF h[c].b = n THEN AddDelta(g) ELSE 0)
      [] h[c].op = "Mul"  -> (IF h[c].a = n THEN MulDeltaA(h, c, g) ELSE 0)
                           + (IF h[c].b = n THEN MulDeltaB(h, c, g) ELSE 0)
      [] h[c].op = "TanH" -> IF h[c].a = n THEN TanhDelta(h, c, g) ELSE 0
      [] h[c].op = "Pow"  -> IF h[c].a = n THEN PowDelta(h, c, g) ELSE 0
      [] OTHER -> 0

\* d root / d n, with d root / d root = seed: the sum over the consumers c
\* of n of c's local derivative times d root / d c.  (A consumer is built
\* after its operands, so it has the larger index.)
RECURSIVE Derivative(_, _, _, _)
Derivative(h, root, seed, n) ==
    IF n = root THEN seed
    ELSE IF n > root THEN 0
    ELSE LET Term(c) == IF c \in Reach(h, root) /\ n \in Operands(h, c)
                        THEN Contribution(h, c, n, Derivative(h, root, seed, c))
                        ELSE 0
         IN  SumOver(Term, n + 1, root)

\* The heap h extended by new cells only: every cell of `pre` is as it was.
Extends(h, pre) == Len(h) >= Len(pre) /\ SubSeq(h, 1, Len(pre)) = pre

\* The last call was backward, from a root seeded to 1.0 while every other
\* cell reachable from it had gradient 0.0.
SeededBackward ==
    /\ last.op = "backward"
    /\ LET root == last.args[1]
       IN  /\ last.pre[root].grad = SCALE
           /\ \A n \in Reach(last.pre, root) \ {root} : last.pre[n].grad = 0

\* Number of times cell n occurs in the sequence tr.
Occurrences(tr, n) == Cardinality({k \in 1..Len(tr) : tr[k] = n})

---------------------------------------------------------------------------
(* C1.  After one backward call from a root seeded to 1 (all other          *)
(* reachable gradients 0), every reachable node's gradient is the partial  *)
(* derivative of the root with respect to it, also when a non-leaf node is *)
(* the operand of several downstream nodes.                                *)
C1_GradientIsDerivative ==
    (SeededBackward /\ ~panicked) =>
        \A n \in Reach(nodes, last.args[1]) :
            nodes[n].grad = Derivative(last.pre, last.args[1], SCALE, n)

(* C3.  For distinct leaves a, b with gradient 0 and c = multiply(a, b)     *)
(* with c.gradient = 1, backward from c gives a.gradient = b.value and     *)
(* b.gradient = a.value and leaves a.value, b.value, c.value, c.gradient.  *)
MulOfLeavesBackward ==
    /\ last.op = "backward"
    /\ LET c == last.args[1]
           a == last.pre[c].a
           b == last.pre[c].b
       IN  /\ last.pre[c].op = "Mul"
           /\ a # b
           /\ last.pre[a].op = "None" /\ last.pre[b].op = "None"
           /\ last.pre[a].grad = 0 /\ last.pre[b].grad = 0
           /\ last.pre[c].grad = SCALE

(* C3.  Backward from c = multiply(a, b) over two distinct zero-gradient   *)
(* leaves, seeded to 1: a.gradient = b.value, b.gradient = a.value, and    *)
(* the values and c.gradient are unchanged.                                *)
C3_MulBackward ==
    MulOfLeavesBackward =>
        LET c == last.args[1]
            a == last.pre[c].a
            b == last.pre[c].b
        IN  /\ ~panicked
            /\ nodes[a].grad = last.pre[b].data
            /\ nodes[b].grad = last.pre[a].data
            /\ nodes[a].data = last.pre[a].data
            /\ nodes[b].data = last.pre[b].data
            /\ nodes[c].data = last.pre[c].data
            /\ nodes[c].grad = SCALE

C3_Witness ==
    /\ MulOfLeavesBackward
    /\ LET c == last.args[1]
       IN  /\ nodes[last.pre[c].a].data # nodes[last.pre[c].b].data
           /\ nodes[last.pre[c].a].grad = Fix(3)
           /\ nodes[last.pre[c].b].grad = Fix(2)

(* C9.  One backward call applies the rule of each reachable (non-leaf)     *)
(* node exactly once, and a node's rule is applied only after every        *)
(* downstream node that has it as an operand has applied its own.          *)
C9_ReverseTopologicalOnce ==
    (last.op = "backward" /\ ~panicked) =>
        LET root == last.args[1]
            R == Reach(last.pre, root)
        IN  /\ \A n \in R : last.pre[n].op # "None" =>
                                 Occurrences(last.tr, n) = 1
            /\ \A c \in R : \A n \in Operands(last.pre, c) :
                   last.pre[n].op # "None" =>
                       \A k \in 1..Len(last.tr) : \A m \in 1..Len(last.tr) :
                           (last.tr[k] = n /\ last.tr[m] = c) => m < k

(* C10. Backward never fails a RefCell borrow check, also when both         *)
(* operands of an operation are the same node: for a leaf a with gradient  *)
(* 0 and c = multiply(a, a) seeded to 1, backward from c ends normally     *)
(* with a.gradient = 2 * a.value.                                          *)
C10_NoBorrowFailure ==
    SeededBackward =>
        /\ ~panicked
        /\ LET c == last.args[1]
               a == last.pre[c].a
           IN  (/\ last.pre[c].op = "Mul" /\ last.pre[c].b = a
                /\ last.pre[a].op = "None" /\ last.pre[a].grad = 0
                /\ last.pre[c].grad = SCALE)
               => nodes[a].grad = 2 * last.pre[a].data

(* C8.  Forward construction is pure: add, multiply, power, tanh and the    *)
(* forward functions built from them return newly constructed nodes with   *)
(* gradient 0 whose operation records the operands (add: value a + b,      *)
(* multiply: value a * b) and leave every existing node as it was.         *)
BuildOps == {"new", "add", "mul", "tanh", "pow"}
ForwardOps == {"neuron_forward", "layer_forward", "mlp_forward"}

(* C8.  Building a node and running a forward pass only append nodes with  *)
(* gradient 0; no existing value or gradient changes.                      *)
C8_ForwardPure ==
    /\ last.op \in BuildOps =>
         LET pre == last.pre
             new == nodes[Len(nodes)]
             i == last.args[1]
             j == last.args[2]
         IN  /\ Extends(nodes, pre)
             /\ Len(nodes) = Len(pre) + 1
             /\ last.res = <<Len(nodes)>>
             /\ new.grad = 0
             /\ last.op = "add" =>
                   /\ new.data = pre[i].data + pre[j].data
                   /\ new.op = "Add" /\ new.a = i /\ new.b = j
             /\ last.op = "mul" =>
                   /\ new.data = FMul(pre[i].data, pre[j].data)
                   /\ new.op = "Mul" /\ new.a = i /\ new.b = j
             /\ last.op = "tanh" => new.op = "TanH" /\ new.a = i
             /\ last.op = "pow" => new.op = "Pow" /\ new.a = i /\ new.k = j
    /\ last.op \in ForwardOps =>
         /\ Extends(nodes, last.pre)
         /\ \A n \in (Len(last.pre) + 1)..Len(nodes) :
               nodes[n].grad = 0 /\ nodes[n].op \in {"Add", "Mul", "TanH"}
         /\ \A k \in 1..Len(last.res) : last.res[k] > Len(last.pre)

C8_Witness ==
    /\ last.op = "mul"
    /\ last.args[1] # last.args[2]
    /\ nodes[Len(nodes)].data = Fix(6)
    /\ \E n \in Refs(last.pre) : last.pre[n].grad # 0

(* C4.  A shape mismatch is an error: Neuron::forward with an input row     *)
(* whose length differs from the weight count, and Perceptron::forward     *)
(* with a row whose length differs from sizes[0], fail; neither returns a  *)
(* result computed from a truncated or padded row.                         *)
C4_ShapeMismatchIsError ==
    /\ (/\ last.op = "neuron_forward"
        /\ Len(prog.xs[1]) # Len(nn.layers[last.args[1]][last.args[2]].w))
       => (last.err /\ last.res = <<>>)
    /\ (last.op = "mlp_forward" /\ Len(prog.xs[1]) # nn.sizes[1])
       => (last.err /\ last.res = <<>>)

(* C6.  parameters() of a Perceptron with sizes [n, s1..sk] is, layer by    *)
(* layer and neuron by neuron, the neuron's weight nodes in input order    *)
(* followed by its bias node, the network's own nodes: its length is the   *)
(* sum over the layers of (inputs + 1) * outputs, 41 for [3, 4, 4, 1].     *)
RECURSIVE ParamCount(_, _)
ParamCount(sizes, l) ==
    IF l < 1 THEN 0
    ELSE (sizes[l] + 1) * sizes[l + 1] + ParamCount(sizes, l - 1)

(* C6.  parameters() lists, layer by layer and neuron by neuron, the       *)
(* weights in order and then the bias: distinct leaves, ParamCount many    *)
(* (41 for 3 inputs and layers 4, 4, 1).                                   *)
C6_Parameters ==
    last.op = "parameters" =>
        LET P == last.res
            sizes == nn.sizes
            Offset(l, j) == ParamCount(sizes, l - 1) + (j - 1) * (sizes[l] + 1)
        IN  /\ nodes = last.pre
            /\ Len(nn.layers) = Len(sizes) - 1
            /\ Len(P) = ParamCount(sizes, Len(sizes) - 1)
            /\ (sizes = <<DemoInputs>> \o DemoLayers) => Len(P) = 41
            /\ \A l \in 1..Len(nn.layers) :
                 /\ Len(nn.layers[l]) = sizes[l + 1]
                 /\ \A j \in 1..sizes[l + 1] :
                      LET neuron == nn.layers[l][j]
                      IN  /\ Len(neuron.w) = sizes[l]
                          /\ \A i \in 1..sizes[l] :
                                P[Offset(l, j) + i] = neuron.w[i]
                          /\ P[Offset(l, j) + sizes[l] + 1] = neuron.b
            /\ \A k \in 1..Len(P) :
                 /\ P[k] \in Refs(nodes) /\ nodes[P[k]].op = "None"
                 /\ \A m \in 1..Len(P) : P[k] = P[m] => k = m

C6_Witness ==
    /\ last.op = "parameters"
    /\ nn.sizes = <<3, 4, 4, 1>>
    /\ Len(last.res) = 41
    /\ last.res[4] = nn.layers[1][1].b

(* C7.  Perceptron::forward on sizes[0] inputs feeds them through the       *)
(* layers in order, each layer giving one output per neuron in neuron      *)
(* order, which are the next layer's inputs, and returns sizes[last]       *)
(* output nodes (one for Perceptron::new(3, [4, 4, 1])), each a TanH node. *)

\* The product nodes summed into s, in the order they were added.
RECURSIVE Products(_, _)
Products(h, s) ==
    IF h[s].op = "Add" THEN Append(Products(h, h[s].a), h[s].b) ELSE <<>>

\* The node the sum s started from.
RECURSIVE SumStart(_, _)
SumStart(h, s) == IF h[s].op = "Add" THEN SumStart(h, h[s].a) ELSE s

\* The inputs a neuron output o = tanh(s) was computed from.
InputsOf(h, o) ==
    LET ps == Products(h, h[o].a) IN [i \in 1..Len(ps) |-> h[ps[i]].a]

\* o is tanh(x[1] * w[1] + ... + x[n] * w[n] + b) of `neuron`, all n weights.
IsNeuronOutput(h, o, neuron) ==
    /\ h[o].op = "TanH"
    /\ LET ps == Products(h, h[o].a)
       IN  /\ Len(ps) = Len(neuron.w)
           /\ \A i \in 1..Len(ps) :
                 h[ps[i]].op = "Mul" /\ h[ps[i]].b = neuron.w[i]
    /\ SumStart(h, h[o].a) = neuron.b

\* outs are the outputs of layer l, computed from the outputs of layer
\* l - 1, and so on down to the row x.
RECURSIVE Wired(_, _, _, _, _)
Wired(h, net, l, outs, x) ==
    IF l = 0 THEN outs = x
    ELSE /\ Len(outs) = Len(net.layers[l])
         /\ \A j \in 1..Len(outs) :
               /\ IsNeuronOutput(h, outs[j], net.layers[l][j])
               /\ InputsOf(h, outs[j]) = InputsOf(h, outs[1])
         /\ Wired(h, net, l - 1, InputsOf(h, outs[1]), x)

(* C7.  Perceptron::forward feeds the row to the first layer and each     *)
(* layer's outputs to the next, and returns sizes[last] TanH nodes.         *)
C7_MLPForward ==
    (last.op = "mlp_forward" /\ Len(prog.xs[1]) = nn.sizes[1]) =>
        /\ Len(last.res) = nn.sizes[Len(nn.sizes)]
        /\ (nn.sizes = <<DemoInputs>> \o DemoLayers) => Len(last.res) = 1
        /\ \A k \in 1..Len(last.res) : nodes[last.res[k]].op = "TanH"
        /\ Wired(nodes, nn, Len(nn.layers), last.res, prog.xs[1])

C7_Witness ==
    /\ last.op = "mlp_forward"
    /\ nn.sizes = <<3, 4, 4, 1>>
    /\ Len(prog.xs[1]) = 3
    /\ Len(last.res) = 1
    /\ nodes[last.res[1]].op = "TanH"

(* C2.  The diamond with a shared leaf: after one backward call from out,   *)
(* shared.gradient = p.value + q.value (8 for p = 3, q = 5) and            *)
(* p.gradient = q.gradient = shared.value: both contributions to the       *)
(* shared leaf are accumulated, none lost or counted twice.                *)
C2_Diamond ==
    prog.pc = "done" =>
        /\ ~panicked
        /\ nodes[Diamond.shared].grad = nodes[Diamond.p].data + nodes[Diamond.q].data
        /\ nodes[Diamond.p].grad = nodes[Diamond.shared].data
        /\ nodes[Diamond.q].grad = nodes[Diamond.shared].data
        /\ (nodes[Diamond.p].data = Fix(3) /\ nodes[Diamond.q].data = Fix(5))
              => nodes[Diamond.shared].grad = Fix(8)

C2_Witness ==
    /\ prog.pc = "done"
    /\ nodes[Diamond.out].op = "Add" /\ nodes[Diamond.out].grad = SCALE
    /\ nodes[Diamond.left].op = "Mul" /\ nodes[Diamond.left].a = Diamond.shared
    /\ nodes[Diamond.right].op = "Mul" /\ nodes[Diamond.right].a = Diamond.shared
    /\ nodes[Diamond.shared].data = Fix(2)
    /\ nodes[Diamond.p].data = Fix(3) /\ nodes[Diamond.q].data = Fix(5)
    /\ nodes[Diamond.shared].grad = Fix(8)

(* C5.  In the training loop, after the backward call of every iteration    *)
(* each node reachable from the loss (parameters, input leaves, target     *)
(* leaves, interior nodes) holds exactly that one backward call's          *)
(* contribution, with nothing left over from an earlier iteration.         *)

\* The leaves the loop builds once and reuses: the rows xs and targets ys.
DataLeaves ==
    {prog.xs[r][i] : r \in 1..Len(prog.xs), i \in 1..Len(prog.xs[1])}
    \cup {prog.ys[r] : r \in 1..Len(prog.ys)}

\* What one backward call from the loss adds to the gradient of cell n:
\* the gradient n ends with when every gradient but the seed starts at 0.
OnePass(n) ==
    LET clean == [m \in 1..Len(last.pre) |->
                     [last.pre[m] EXCEPT !.grad = IF m = prog.loss THEN SCALE
                                                                ELSE 0]]
    IN  ValueBackward(clean, prog.loss).h[n].grad

AfterTrainBackward == prog.pc = "update" /\ ~panicked

(* C5.  In the training loop, after each backward call every node          *)
(* reachable from the loss (parameters, input and target leaves, interior  *)
(* nodes) holds only that call's contribution.                              *)
C5_NoLeftover ==
    AfterTrainBackward =>
        \A n \in Reach(nodes, prog.loss) : nodes[n].grad = OnePass(n)

(* C5, amended.  After the backward call of every iteration each parameter  *)
(* and each node built in that iteration holds exactly that backward       *)
(* call's contribution; the reused input and target leaves, which the loop *)
(* never resets, hold what they held before the call plus it.              *)
C5_NoLeftoverButDataLeaves ==
    AfterTrainBackward =>
        \A n \in Reach(nodes, prog.loss) :
              IF n \in DataLeaves
              THEN nodes[n].grad = last.pre[n].grad + OnePass(n)
              ELSE nodes[n].grad = OnePass(n)

C5_Witness ==
    /\ AfterTrainBackward
    /\ prog.iter = 2
    /\ \E n \in DataLeaves \cap Reach(nodes, prog.loss) :
          last.pre[n].grad # 0 /\ OnePass(n) # 0
    /\ \E k \in 1..Len(MLPParameters(nn)) :
          nodes[MLPParameters(nn)[k]].grad # 0

===========================================================================
